---- MODULE Spec2Model ----
(***************************************************************************)
(* Model of utils/model_performance_analysis.py: the batched inference     *)
(* loop (predict_with_probabilities), the failure extractor                *)
(* (find_top_failures), the confusion matrix reporter                      *)
(* (show_confusion_matrix) and the precision-recall analyzer               *)
(* (plot_combined_precision_recall_curve).                                 *)
(*                                                                         *)
(* Probabilities are exact fractions: the integer p stands for p/(2*Half), *)
(* so Half is 0.5 and 2*Half is 1.0.  A softmax row is a pair <<p0, p1>>   *)
(* with p0 + p1 = 2*Half.  Python dicts are sequences of [key, val] items  *)
(* (insertion order, unique keys); Python lists are sequences.             *)
(***************************************************************************)
EXTENDS Integers, Sequences, FiniteSets, TLC

\* ------------------------------------------------------------- bounds
\* Probability grid: the integer p stands for p / (2 * Half).
Half == 1
\* Rows of a corpus, both languages together.
MaxRows == 3
\* batch_size ranges over 1..MaxBatch.
MaxBatch == 2
\* top_failures ranges over 0..MaxK.
MaxK == 2
\* Longest label list of an entry given to show_confusion_matrix.
MaxCMLen == 1
\* Rows pooled by plot_combined_precision_recall_curve.
MaxPRRows == 7

\* ------------------------------------------------- program constants
DefaultTopFailures == 5

VARIABLES
    pc,                       \* which call is in progress / has returned
    df_by_language,           \* dict lang -> dataframe rows [text, label]
    forward,                  \* text -> softmax(model(text).logits), the trained network
    conf_th,                  \* argument of predict_with_probabilities
    batch_size,               \* argument of predict_with_probabilities
    lang_i,                   \* position of the `for lang, lang_dataset` loop
    batch_i,                  \* batches of the current data_loader already consumed
    pred_labels,              \* local list of the current language
    pred_probs,               \* local list of the current language
    results_by_lang,          \* dict lang -> [true_labels, pred_labels, pred_probs]
    top_failures,             \* argument of find_top_failures
    top_failures_by_language, \* return value of find_top_failures
    figure,                   \* what show_confusion_matrix drew, and what it raised
    pr_result                 \* locals of plot_combined_precision_recall_curve

vars == <<pc, df_by_language, forward, conf_th, batch_size, lang_i, batch_i,
          pred_labels, pred_probs, results_by_lang, top_failures,
          top_failures_by_language, figure, pr_result>>

\* ------------------------------------------------------------ helpers
Min(a, b) == IF a <= b THEN a ELSE b
Max(a, b) == IF a >= b THEN a ELSE b

Labels == {0, 1}

SeqSet(s) == {s[i] : i \in DOMAIN s}

\* One row of softmax output: (p_non_toxic, p_toxic), summing to 1.
ProbPairs == {<<2 * Half - p, p>> : p \in 0..(2 * Half)}

\* Python dict operations on a sequence of [key, val] items.
DictKeys(d) == {d[i].key : i \in DOMAIN d}
DictGet(d, k) == d[CHOOSE i \in DOMAIN d : d[i].key = k].val
DictSet(d, k, v) ==
    IF k \in DictKeys(d)
    THEN [i \in DOMAIN d |-> IF d[i].key = k THEN [key |-> k, val |-> v] ELSE d[i]]
    ELSE Append(d, [key |-> k, val |-> v])

\* lang_dataset[TEXT].tolist() and lang_dataset[LABEL].tolist()
TextColumn(rows) == [i \in DOMAIN rows |-> rows[i].text]
LabelColumn(rows) == [i \in DOMAIN rows |-> rows[i].label]

\* ---------------------------------------- predict_with_probabilities
\* Mutant: a DataLoader that drops the last partial batch.
NumBatchesDropLast(n, bs) == n \div bs

\* len(data_loader): DataLoader keeps the last partial batch (drop_last=False).
NumBatches(n, bs) == (n + bs - 1) \div bs

\* The b-th batch (0-based) of a DataLoader with shuffle=False.
Batch(texts, bs, b) == SubSeq(texts, b * bs + 1, Min((b + 1) * bs, Len(texts)))

\* softmax(model(**batch).logits, dim=1): one probability pair per batch row.
Probabilities(batch) == [j \in DOMAIN batch |-> forward[batch[j]]]

\* Mutant: the comparison with conf_th made non-strict.
PredictionsAtLeast(probabilities, th) ==
    [j \in DOMAIN probabilities |-> IF probabilities[j][2] >= th THEN 1 ELSE 0]

\* np.where(probabilities[:, 1] > conf_th, 1, 0)
Predictions(probabilities, th) ==
    [j \in DOMAIN probabilities |-> IF probabilities[j][2] > th THEN 1 ELSE 0]

CurrentLang == df_by_language[lang_i]

PredictBatch ==
    /\ pc = "predict"
    /\ lang_i <= Len(df_by_language)
    /\ batch_i < NumBatches(Len(CurrentLang.val), batch_size)
    /\ LET batch == Batch(TextColumn(CurrentLang.val), batch_size, batch_i)
           probabilities == Probabilities(batch)
           predictions == Predictions(probabilities, conf_th)
       IN /\ pred_probs' = pred_probs \o probabilities
          /\ pred_labels' = pred_labels \o predictions
    /\ batch_i' = batch_i + 1
    /\ UNCHANGED <<pc, df_by_language, forward, conf_th, batch_size, lang_i,
                   results_by_lang, top_failures, top_failures_by_language,
                   figure, pr_result>>

\* End of the batch loop of one language: store its entry and start the next
\* language with fresh pred_labels / pred_probs lists.
StoreLang ==
    /\ pc = "predict"
    /\ lang_i <= Len(df_by_language)
    /\ batch_i = NumBatches(Len(CurrentLang.val), batch_size)
    /\ results_by_lang' = DictSet(results_by_lang, CurrentLang.key,
                                  [true_labels |-> LabelColumn(CurrentLang.val),
                                   pred_labels |-> pred_labels,
                                   pred_probs |-> pred_probs])
    /\ lang_i' = lang_i + 1
    /\ batch_i' = 0
    /\ pred_labels' = <<>>
    /\ pred_probs' = <<>>
    /\ UNCHANGED <<pc, df_by_language, forward, conf_th, batch_size,
                   top_failures, top_failures_by_language, figure, pr_result>>

PredictReturn ==
    /\ pc = "predict"
    /\ lang_i > Len(df_by_language)
    /\ pc' = "predicted"
    /\ UNCHANGED <<df_by_language, forward, conf_th, batch_size, lang_i, batch_i,
                   pred_labels, pred_probs, results_by_lang, top_failures,
                   top_failures_by_language, figure, pr_result>>

\* ------------------------------------------------- find_top_failures
\* zip(true_labels, pred_labels, pred_probs) stops at the shortest list.
ZipLen(m) == Min(Len(m.true_labels), Min(Len(m.pred_labels), Len(m.pred_probs)))

\* max(prob)
Confidence(prob) == Max(prob[1], prob[2])

FailureInfo(test_set, m, i) ==
    [true_label |-> m.true_labels[i], pred_label |-> m.pred_labels[i],
     confidence |-> Confidence(m.pred_probs[i]), text |-> test_set[i].text]

\* Mutant: the scan loop without the true_label != pred_label test.
RECURSIVE FailuresUnfiltered(_, _, _, _)
FailuresUnfiltered(test_set, m, cls, n) ==
    IF n = 0 THEN <<>>
    ELSE LET before == FailuresUnfiltered(test_set, m, cls, n - 1)
             isClass == IF cls = 0 THEN m.true_labels[n] = 0 ELSE m.true_labels[n] # 0
         IN IF isClass THEN Append(before, FailureInfo(test_set, m, n)) ELSE before

\* The scan loop: the failures of one class (true_label = cls), in row order.
RECURSIVE FailuresUpTo(_, _, _, _)
FailuresUpTo(test_set, m, cls, n) ==
    IF n = 0 THEN <<>>
    ELSE LET before == FailuresUpTo(test_set, m, cls, n - 1)
             isClass == IF cls = 0 THEN m.true_labels[n] = 0 ELSE m.true_labels[n] # 0
         IN IF m.true_labels[n] # m.pred_labels[n] /\ isClass
            THEN Append(before, FailureInfo(test_set, m, n))
            ELSE before

\* Mutant: an unstable sort, placing x before the elements of equal confidence.
InsertDescUnstable(s, x) ==
    LET k == Cardinality({i \in DOMAIN s : s[i].confidence > x.confidence})
    IN SubSeq(s, 1, k) \o <<x>> \o SubSeq(s, k + 1, Len(s))

\* Position at which a stable descending sort places x among the sorted s:
\* after every element whose confidence is >= x.confidence.
InsertDesc(s, x) ==
    LET k == Cardinality({i \in DOMAIN s : s[i].confidence >= x.confidence})
    IN SubSeq(s, 1, k) \o <<x>> \o SubSeq(s, k + 1, Len(s))

\* sorted(failures, key=lambda x: x['confidence'], reverse=True)
RECURSIVE SortedByConfidence(_)
SortedByConfidence(s) ==
    IF s = <<>> THEN <<>>
    ELSE InsertDesc(SortedByConfidence(SubSeq(s, 1, Len(s) - 1)), s[Len(s)])

\* s[:k] for k >= 0
Take(s, k) == SubSeq(s, 1, Min(k, Len(s)))

TopFailures(test_set, m, cls, k) ==
    Take(SortedByConfidence(FailuresUpTo(test_set, m, cls, ZipLen(m))), k)

RECURSIVE TopFailuresByLanguage(_, _, _, _)
TopFailuresByLanguage(dataset, matches, k, n) ==
    IF n = 0 THEN <<>>
    ELSE LET item == dataset[n]
             m == DictGet(matches, item.key)
         IN DictSet(TopFailuresByLanguage(dataset, matches, k, n - 1), item.key,
                    [false_toxic |-> TopFailures(item.val, m, 0, k),
                     false_nontoxic |-> TopFailures(item.val, m, 1, k)])

FindTopFailures(k) ==
    /\ pc = "predicted"
    /\ top_failures' = k
    /\ top_failures_by_language' =
           TopFailuresByLanguage(df_by_language, results_by_lang, k,
                                 Len(df_by_language))
    /\ pc' = "failures"
    /\ UNCHANGED <<df_by_language, forward, conf_th, batch_size, lang_i, batch_i,
                   pred_labels, pred_probs, results_by_lang, figure, pr_result>>

\* find_top_failures(dataset, matches): top_failures keeps its default.
FindTopFailuresDefault == FindTopFailures(DefaultTopFailures)

\* find_top_failures(dataset, matches, top_failures=k) for any k >= 0.
FindTopFailuresK == \E k \in 0..MaxK : FindTopFailures(k)

\* --------------------------------------------- show_confusion_matrix
NoCurve == [raised |-> "unset"]

NoFigure == [raised |-> "none", site |-> "", panels |-> <<>>]

\* The for loop of lines 112-114: list.extend over the entries in dict order.
RECURSIVE Pooled(_, _, _)
Pooled(d, field, n) ==
    IF n = 0 THEN <<>>
    ELSE Pooled(d, field, n - 1) \o
         (IF field = "true_labels" THEN d[n].val.true_labels ELSE d[n].val.pred_labels)

TotalLabels(d) == [true_labels |-> Pooled(d, "true_labels", Len(d)),
                   pred_labels |-> Pooled(d, "pred_labels", Len(d))]

\* {**deepcopy(labels_and_predictions_by_lang), "all languages": total_labels}
WithAllLanguages(d) == DictSet(d, "all languages", TotalLabels(d))

\* sklearn unique_labels(y_true, y_pred): the sorted labels that occur.
RECURSIVE SortedSeq(_)
SortedSeq(S) ==
    IF S = {} THEN <<>>
    ELSE LET x == CHOOSE y \in S : \A z \in S : y <= z
         IN <<x>> \o SortedSeq(S \ {x})

Classes(true, preds) == SortedSeq(SeqSet(true) \cup SeqSet(preds))

Count(true, preds, t, p) ==
    Cardinality({i \in DOMAIN true : true[i] = t /\ preds[i] = p})

\* confusion_matrix(y_true, y_pred, normalize='true') * 100: cell [i][j] is the
\* fraction <<numerator, denominator>> of rows of true class i predicted as
\* class j, in percent; a true class without rows gives a row of zeros.
ConfusionMatrix(true, preds) ==
    LET cls == Classes(true, preds)
    IN [i \in DOMAIN cls |->
          [j \in DOMAIN cls |->
             LET rowsum == Cardinality({k \in DOMAIN true : true[k] = cls[i]})
             IN IF rowsum = 0 THEN <<0, 1>>
                ELSE <<Count(true, preds, cls[i], cls[j]) * 100, rowsum>>]]

\* np.mean(np.array(true) == np.array(preds)) * 100, as a fraction.
Accuracy(true, preds) ==
    <<Cardinality({i \in DOMAIN true : true[i] = preds[i]}) * 100, Len(true)>>

Panel(item) ==
    [lang |-> item.key,
     cm |-> ConfusionMatrix(item.val.true_labels, item.val.pred_labels),
     accuracy |-> Accuracy(item.val.true_labels, item.val.pred_labels)]

\* The panel loop of lines 127-146.  confusion_matrix raises ValueError on
\* inputs of inconsistent length; the panels before it were already drawn.
RECURSIVE DrawPanels(_, _)
DrawPanels(d, n) ==
    IF n = 0 THEN NoFigure
    ELSE LET before == DrawPanels(d, n - 1)
         IN IF before.raised # "none" THEN before
            ELSE IF Len(d[n].val.true_labels) # Len(d[n].val.pred_labels)
                 THEN [before EXCEPT !.raised = "ValueError", !.site = "confusion_matrix"]
                 ELSE [before EXCEPT !.panels = Append(@, Panel(d[n]))]

ShowFigure(d) ==
    LET total == TotalLabels(d)
        entries == WithAllLanguages(d)
    IN IF Len(total.true_labels) # Len(total.pred_labels)
       THEN [NoFigure EXCEPT !.raised = "AssertionError", !.site = "sizes"]
       ELSE IF Len(entries) # 2 * 2
            THEN [NoFigure EXCEPT !.raised = "AssertionError", !.site = "entries"]
            ELSE DrawPanels(entries, Len(entries))

ShowConfusionMatrix ==
    /\ pc = "predicted"
    /\ figure' = ShowFigure(results_by_lang)
    /\ pc' = "shown"
    /\ UNCHANGED <<df_by_language, forward, conf_th, batch_size, lang_i, batch_i,
                   pred_labels, pred_probs, results_by_lang, top_failures,
                   top_failures_by_language, pr_result>>

\* ------------------------------ plot_combined_precision_recall_curve
\* Lines 196-198: labels and toxic-class probabilities pooled over the entries.
RECURSIVE TotalTrueLabels(_, _)
TotalTrueLabels(d, n) ==
    IF n = 0 THEN <<>> ELSE TotalTrueLabels(d, n - 1) \o d[n].val.true_labels

RECURSIVE TotalPredProbs(_, _)
TotalPredProbs(d, n) ==
    IF n = 0 THEN <<>>
    ELSE TotalPredProbs(d, n - 1) \o
         [i \in DOMAIN d[n].val.pred_probs |-> d[n].val.pred_probs[i][2]]

\* sklearn precision_recall_curve(y_true, probas_pred).  thresholds are the
\* distinct scores in increasing order; point i counts the rows scored at or
\* above thresholds[i]; precision = tp / (tp + fp), recall = tp / positives
\* (1 when there is no positive); a last point (precision 1, recall 0) is
\* appended.  Fractions are pairs <<numerator, denominator>>.
Thresholds(scores) == SortedSeq(SeqSet(scores))

TruePositives(y_true, scores, th) ==
    Cardinality({i \in DOMAIN scores : scores[i] >= th /\ y_true[i] = 1})

Predicted(scores, th) == Cardinality({i \in DOMAIN scores : scores[i] >= th})

Positives(y_true) == Cardinality({i \in DOMAIN y_true : y_true[i] = 1})

Precision(y_true, scores) ==
    LET ths == Thresholds(scores)
    IN [i \in DOMAIN ths |->
          <<TruePositives(y_true, scores, ths[i]), Predicted(scores, ths[i])>>]
       \o << <<1, 1>> >>

Recall(y_true, scores) ==
    LET ths == Thresholds(scores)
    IN [i \in DOMAIN ths |->
          IF Positives(y_true) = 0 THEN <<1, 1>>
          ELSE <<TruePositives(y_true, scores, ths[i]), Positives(y_true)>>]
       \o << <<0, 1>> >>

\* Mutant: the F1 criterion 2 * precision * recall / (precision + recall).
F1Score(p, r) ==
    IF p[1] = 0 \/ r[1] = 0 THEN <<0, 1>>
    ELSE <<2 * p[1] * r[1], p[1] * r[2] + r[1] * p[2]>>

\* Mutant: recall left out of the criterion.
PrecisionOnly(p, r) == p

\* precision * recall: the square of the geometric mean np.sqrt(precision *
\* recall), which orders the points as the geometric mean does.
GeoMeanSq(p, r) == <<p[1] * r[1], p[2] * r[2]>>

FracLess(a, b) == a[1] * b[2] < b[1] * a[2]

\* np.argmax: the first index (0-based) holding the maximum.
Argmax0(vals) ==
    (CHOOSE i \in DOMAIN vals :
        /\ \A j \in DOMAIN vals : ~FracLess(vals[i], vals[j])
        /\ \A j \in 1..(i - 1) : FracLess(vals[j], vals[i])) - 1

PlotCurve(d) ==
    LET y_true == TotalTrueLabels(d, Len(d))
        scores == TotalPredProbs(d, Len(d))
        precision == Precision(y_true, scores)
        recall == Recall(y_true, scores)
        thresholds == Thresholds(scores)
        optimal_idx == Argmax0([i \in DOMAIN precision |->
                                   GeoMeanSq(precision[i], recall[i])])
    IN IF y_true = <<>> \/ Len(y_true) # Len(scores)
       THEN [raised |-> "ValueError"]
       ELSE IF optimal_idx >= Len(thresholds)
            THEN [raised |-> "IndexError", precision |-> precision, recall |-> recall,
                  thresholds |-> thresholds, optimal_idx |-> optimal_idx]
            ELSE [raised |-> "none", precision |-> precision, recall |-> recall,
                  thresholds |-> thresholds, optimal_idx |-> optimal_idx,
                  optimal_threshold |-> thresholds[optimal_idx + 1]]

PlotCombinedPrecisionRecallCurve ==
    /\ pc = "predicted"
    /\ pr_result' = PlotCurve(results_by_lang)
    /\ pc' = "plotted"
    /\ UNCHANGED <<df_by_language, forward, conf_th, batch_size, lang_i, batch_i,
                   pred_labels, pred_probs, results_by_lang, top_failures,
                   top_failures_by_language, figure>>

\* ------------------------------------------------------------- inputs
LangKeys == <<"en", "es">>

\* A dataframe of n rows; the text of a row is unique (its language and position).
Rows(key, labels) == [i \in DOMAIN labels |-> [text |-> <<key, i>>, label |-> labels[i]]]

Corpus(l1, l2) == <<[key |-> LangKeys[1], val |-> Rows(LangKeys[1], l1)],
                    [key |-> LangKeys[2], val |-> Rows(LangKeys[2], l2)]>>

Texts(df) == UNION {{df[i].val[j].text : j \in DOMAIN df[i].val} : i \in DOMAIN df}

\* Corpus sizes (rows of the first, rows of the second language): the first
\* language is empty or has one row, the second takes up to all the rows.
Sizes == {<<n1, n2>> \in (0..1) \X (0..MaxRows) : n1 + n2 <= MaxRows}

Init ==
    /\ pc = "predict"
    /\ \E sz \in Sizes :
         \E l1 \in [1..sz[1] -> Labels], l2 \in [1..sz[2] -> Labels] :
              df_by_language = Corpus(l1, l2)
    /\ forward \in [Texts(df_by_language) -> ProbPairs]
    /\ conf_th \in {Half - 1, Half, Half + 1}
    /\ batch_size \in 1..MaxBatch
    /\ lang_i = 1
    /\ batch_i = 0
    /\ pred_labels = <<>>
    /\ pred_probs = <<>>
    /\ results_by_lang = <<>>
    /\ top_failures = 0
    /\ top_failures_by_language = <<>>
    /\ figure = NoFigure
    /\ pr_result = NoCurve

Next == PredictBatch \/ StoreLang \/ PredictReturn \/ FindTopFailuresDefault

Spec == Init /\ [][Next]_vars

\* find_top_failures called on an arbitrary index-aligned prediction result:
\* labels in {0,1}, pred_labels not tied to pred_probs by any threshold.
Matches(l, p, q) == [true_labels |-> l, pred_labels |-> p, pred_probs |-> q]

InitFail ==
    /\ pc = "predicted"
    /\ \E sz \in Sizes :
         \E l1 \in [1..sz[1] -> Labels], l2 \in [1..sz[2] -> Labels] :
              /\ df_by_language = Corpus(l1, l2)
              /\ \E p1 \in [1..sz[1] -> Labels], p2 \in [1..sz[2] -> Labels],
                    q1 \in [1..sz[1] -> ProbPairs], q2 \in [1..sz[2] -> ProbPairs] :
                   results_by_lang = <<[key |-> LangKeys[1], val |-> Matches(l1, p1, q1)],
                                       [key |-> LangKeys[2], val |-> Matches(l2, p2, q2)]>>
    /\ forward = <<>>
    /\ conf_th = Half
    /\ batch_size = 1
    /\ lang_i = 1
    /\ batch_i = 0
    /\ pred_labels = <<>>
    /\ pred_probs = <<>>
    /\ top_failures = 0
    /\ top_failures_by_language = <<>>
    /\ figure = NoFigure
    /\ pr_result = NoCurve

NextFail == FindTopFailuresK

SpecFail == InitFail /\ [][NextFail]_vars

\* show_confusion_matrix called on an arbitrary mapping: any number of
\* language keys, true and predicted label lists of independent lengths.
CMKeyLists == {<<"en", "es">>,
               <<"en", "es", "fr">>,
               <<"en", "es", "all languages">>,
               <<"en", "es", "fr", "de">>,
               <<"en", "es", "fr", "all languages">>}

LabelLists == UNION {[1..n -> Labels] : n \in 0..MaxCMLen}

InitCM ==
    /\ pc = "predicted"
    /\ \E keys \in CMKeyLists :
         \E t \in [DOMAIN keys -> LabelLists], p \in [DOMAIN keys -> LabelLists] :
            results_by_lang = [i \in DOMAIN keys |->
                                 [key |-> keys[i], val |-> Matches(t[i], p[i], <<>>)]]
    /\ df_by_language = <<>>
    /\ forward = <<>>
    /\ conf_th = Half
    /\ batch_size = 1
    /\ lang_i = 1
    /\ batch_i = 0
    /\ pred_labels = <<>>
    /\ pred_probs = <<>>
    /\ top_failures = 0
    /\ top_failures_by_language = <<>>
    /\ figure = NoFigure
    /\ pr_result = NoCurve

NextCM == ShowConfusionMatrix

SpecCM == InitCM /\ [][NextCM]_vars

\* plot_combined_precision_recall_curve called on index-aligned results: a few
\* rows with any probability pair, or up to MaxPRRows rows whose pairs are one
\* of two outputs (a confident non-toxic and a confident toxic one).
PRPairs == {<<Half + 1, Half - 1>>, <<Half - 1, Half + 1>>}

PRSizes == {<<n1, n2>> \in (0..1) \X (0..MaxPRRows) : n1 + n2 <= MaxPRRows}

PRResults(l1, l2, q1, q2) ==
    <<[key |-> LangKeys[1], val |-> Matches(l1, Predictions(q1, Half), q1)],
      [key |-> LangKeys[2], val |-> Matches(l2, Predictions(q2, Half), q2)]>>

InitPR ==
    /\ pc = "predicted"
    /\ \/ \E sz \in Sizes :
            \E l1 \in [1..sz[1] -> Labels], l2 \in [1..sz[2] -> Labels],
               q1 \in [1..sz[1] -> ProbPairs], q2 \in [1..sz[2] -> ProbPairs] :
                 results_by_lang = PRResults(l1, l2, q1, q2)
       \/ \E sz \in PRSizes :
            \E l1 \in [1..sz[1] -> Labels], l2 \in [1..sz[2] -> Labels],
               q1 \in [1..sz[1] -> PRPairs], q2 \in [1..sz[2] -> PRPairs] :
                 results_by_lang = PRResults(l1, l2, q1, q2)
    /\ df_by_language = <<>>
    /\ forward = <<>>
    /\ conf_th = Half
    /\ batch_size = 1
    /\ lang_i = 1
    /\ batch_i = 0
    /\ pred_labels = <<>>
    /\ pred_probs = <<>>
    /\ top_failures = 0
    /\ top_failures_by_language = <<>>
    /\ figure = NoFigure
    /\ pr_result = NoCurve

NextPR == PlotCombinedPrecisionRecallCurve

SpecPR == InitPR /\ [][NextPR]_vars

\* ------------------------------------------------------------ claims
\* np.argmax of a pair: the first index holding the maximum (ties -> class 0).
Argmax(pair) == IF pair[2] > pair[1] THEN 1 ELSE 0

ThresholdRule(labels, probs) ==
    /\ Len(labels) = Len(probs)
    /\ \A i \in DOMAIN labels :
         /\ labels[i] \in Labels
         /\ (labels[i] = 1) <=> (probs[i][2] > conf_th)
         /\ (conf_th = Half) => (labels[i] = Argmax(probs[i]))

\* C1: every predicted label, in the list being filled and in every stored
\* language entry, is 1 iff the row's toxic probability is strictly greater
\* than conf_th and 0 otherwise; at conf_th = 0.5 it equals the argmax of the
\* pair with ties going to class 0.
C1_ThresholdRule ==
    /\ ThresholdRule(pred_labels, pred_probs)
    /\ \A i \in DOMAIN results_by_lang :
         ThresholdRule(results_by_lang[i].val.pred_labels,
                       results_by_lang[i].val.pred_probs)

\* A stored row (0.5, 0.5) at conf_th = 0.5 labelled 0, beside a row labelled 1.
C1_Witness ==
    /\ pc = "predicted"
    /\ conf_th = Half
    /\ \E i \in DOMAIN results_by_lang :
         LET m == results_by_lang[i].val
         IN /\ \E j \in DOMAIN m.pred_probs :
                 m.pred_probs[j] = <<Half, Half>> /\ m.pred_labels[j] = 0
            /\ \E j \in DOMAIN m.pred_labels : m.pred_labels[j] = 1

Aligned(rows, m) ==
    /\ Len(m.true_labels) = Len(rows)
    /\ Len(m.pred_labels) = Len(rows)
    /\ Len(m.pred_probs) = Len(rows)
    /\ \A i \in DOMAIN rows :
         /\ m.true_labels[i] = rows[i].label
         /\ m.pred_probs[i] = forward[rows[i].text]
         /\ m.pred_labels[i] = (IF forward[rows[i].text][2] > conf_th THEN 1 ELSE 0)

\* C2: every stored language entry has true_labels, pred_labels and pred_probs
\* of the corpus length, element i of each belonging to corpus row i; once
\* predict_with_probabilities has returned every language has its entry.
C2_Aligned ==
    /\ \A i \in DOMAIN results_by_lang :
         /\ results_by_lang[i].key = df_by_language[i].key
         /\ Aligned(df_by_language[i].val, results_by_lang[i].val)
    /\ pc = "predicted" => Len(results_by_lang) = Len(df_by_language)

\* A returned run in which a language's full batch was followed by a partial one.
C2_Witness ==
    /\ pc = "predicted"
    /\ \E i \in DOMAIN df_by_language :
         /\ Len(df_by_language[i].val) > batch_size
         /\ Len(df_by_language[i].val) % batch_size # 0

\* All failure records returned for the language at position i.
FailureLists(i) == <<top_failures_by_language[i].val.false_toxic,
                     top_failures_by_language[i].val.false_nontoxic>>

\* The zipped rows of entry m that find_top_failures classifies under cls.
Mismatched(m, cls) ==
    {i \in 1..ZipLen(m) : m.true_labels[i] # m.pred_labels[i] /\ m.true_labels[i] = cls}

\* Record r was built from row i of the language (rows, m).
BuiltFrom(r, rows, m, i) ==
    /\ r.text = rows[i].text
    /\ r.true_label = m.true_labels[i]
    /\ r.pred_label = m.pred_labels[i]

\* C3: a row is in a failure list only if its labels differ; False TOXIC holds
\* only (true 0, pred 1) records and False NON-TOXIC only (true 1, pred 0)
\* records; no row is in both lists; without mismatched rows both are empty.
C3_FailureClasses ==
    pc = "failures" =>
      \A i \in DOMAIN top_failures_by_language :
        LET rows == df_by_language[i].val
            m == results_by_lang[i].val
            ft == top_failures_by_language[i].val.false_toxic
            fn == top_failures_by_language[i].val.false_nontoxic
        IN /\ top_failures_by_language[i].key = df_by_language[i].key
           /\ \A r \in SeqSet(ft) : r.true_label = 0 /\ r.pred_label = 1
           /\ \A r \in SeqSet(fn) : r.true_label = 1 /\ r.pred_label = 0
           /\ \A r \in SeqSet(ft) \cup SeqSet(fn) :
                \E j \in DOMAIN rows :
                    BuiltFrom(r, rows, m, j) /\ m.true_labels[j] # m.pred_labels[j]
           /\ {r.text : r \in SeqSet(ft)} \cap {r.text : r \in SeqSet(fn)} = {}
           /\ (\A j \in 1..ZipLen(m) : m.true_labels[j] = m.pred_labels[j])
                => (ft = <<>> /\ fn = <<>>)

\* One language with both kinds of failure, the other with rows but no mismatch.
C3_Witness ==
    /\ pc = "failures"
    /\ \E i \in DOMAIN top_failures_by_language :
         LET m == results_by_lang[i].val
         IN /\ top_failures_by_language[i].val.false_toxic # <<>>
            /\ top_failures_by_language[i].val.false_nontoxic # <<>>
    /\ \E i \in DOMAIN top_failures_by_language :
         LET m == results_by_lang[i].val
         IN /\ Len(m.true_labels) > 0
            /\ \A j \in DOMAIN m.true_labels : m.true_labels[j] = m.pred_labels[j]
            /\ top_failures_by_language[i].val.false_toxic = <<>>
            /\ top_failures_by_language[i].val.false_nontoxic = <<>>

\* The corpus position of a failure record (texts are unique per row).
RowOf(r) == r.text[2]

TopK(list, rows, m, cls) ==
    LET F == Mismatched(m, cls)
        inList == {RowOf(list[a]) : a \in DOMAIN list}
    IN /\ Len(list) = Min(top_failures, Cardinality(F))
       /\ Cardinality(inList) = Len(list)
       /\ inList \subseteq F
       /\ \A a \in DOMAIN list :
            /\ BuiltFrom(list[a], rows, m, RowOf(list[a]))
            /\ list[a].confidence = Confidence(m.pred_probs[RowOf(list[a])])
       /\ \A a \in 1..(Len(list) - 1) : list[a].confidence >= list[a + 1].confidence
       /\ \A j \in F \ inList :
            \A a \in DOMAIN list : Confidence(m.pred_probs[j]) <= list[a].confidence
       /\ \A a, b \in DOMAIN list :
            (a < b /\ list[a].confidence = list[b].confidence)
                => RowOf(list[a]) < RowOf(list[b])

\* C4: each returned list has length min(K, mismatched rows of its class), has
\* non-increasing confidences, leaves out only rows whose confidence is at
\* most the smallest one kept, and keeps rows of equal confidence in corpus
\* order.
C4_TopKByConfidence ==
    pc = "failures" =>
      \A i \in DOMAIN top_failures_by_language :
        /\ TopK(top_failures_by_language[i].val.false_toxic,
                df_by_language[i].val, results_by_lang[i].val, 0)
        /\ TopK(top_failures_by_language[i].val.false_nontoxic,
                df_by_language[i].val, results_by_lang[i].val, 1)

\* A truncated list: three mismatched rows of one class, the two kept ones of
\* equal confidence and the one left out of strictly lower confidence.
C4_Witness ==
    /\ pc = "failures"
    /\ \E i \in DOMAIN top_failures_by_language :
         LET list == top_failures_by_language[i].val.false_toxic
             m == results_by_lang[i].val
         IN /\ Len(list) >= 2
            /\ Len(list) = top_failures
            /\ list[1].confidence = list[2].confidence
            /\ \E j \in Mismatched(m, 0) :
                 /\ j < RowOf(list[1])
                 /\ Confidence(m.pred_probs[j]) < list[Len(list)].confidence

\* C9: every failure record built from the results of
\* predict_with_probabilities carries the probability the model gave to the
\* class stored in pred_label, and the text of the corpus row at its index.
C9_ConfidenceOfPredictedLabel ==
    pc = "failures" =>
      \A i \in DOMAIN top_failures_by_language :
        \A k \in 1..2 :
          \A r \in SeqSet(FailureLists(i)[k]) :
            \E j \in DOMAIN df_by_language[i].val :
              /\ BuiltFrom(r, df_by_language[i].val, results_by_lang[i].val, j)
              /\ r.confidence = results_by_lang[i].val.pred_probs[j][r.pred_label + 1]

\* Whether every entry of a mapping has as many predicted as true labels.
Consistent(d) ==
    \A i \in DOMAIN d : Len(d[i].val.true_labels) = Len(d[i].val.pred_labels)

RECURSIVE SumLen(_, _, _)
SumLen(d, field, n) ==
    IF n = 0 THEN 0
    ELSE SumLen(d, field, n - 1) +
         (IF field = "true_labels" THEN Len(d[n].val.true_labels)
                                   ELSE Len(d[n].val.pred_labels))

\* C5: with a number of language keys other than 3, whatever their names,
\* show_confusion_matrix raises AssertionError before drawing a panel; with
\* exactly 3 languages of consistent lengths it draws exactly 4 panels.
C5_ExactlyThreeLanguages ==
    pc = "shown" =>
      /\ Len(results_by_lang) # 3 =>
            (figure.raised = "AssertionError" /\ figure.panels = <<>>)
      /\ (Len(results_by_lang) = 3 /\ Consistent(results_by_lang)) =>
            (figure.raised = "none" /\ Len(figure.panels) = 4)

\* C6: unequal pooled lengths raise AssertionError, they are unequal only if
\* some language's own lists are, and once the checks have passed (no
\* AssertionError is raised) every panel, each language and the pooled view,
\* has true and predicted label lists of equal length.
C6_SizeCheckMeansConsistent ==
    pc = "shown" =>
      LET nTrue == SumLen(results_by_lang, "true_labels", Len(results_by_lang))
          nPred == SumLen(results_by_lang, "pred_labels", Len(results_by_lang))
      IN /\ nTrue # nPred => figure.raised = "AssertionError"
         /\ nTrue # nPred => ~Consistent(results_by_lang)
         /\ figure.raised # "AssertionError"
               => Consistent(WithAllLanguages(results_by_lang))

\* C7: every panel drawn from at least one row has a 2x2 matrix over
\* [non-toxic, toxic] whose cell (t, p) is 100 * rows(true t, predicted p) /
\* rows(true t), so the two cells of a true class that has rows sum to 100.
C7_TwoByTwoRowsSumTo100 ==
    pc = "shown" =>
      \A k \in DOMAIN figure.panels :
        LET cm == figure.panels[k].cm
            e == WithAllLanguages(results_by_lang)[k].val
            rows(t) == {i \in DOMAIN e.true_labels : e.true_labels[i] = t}
            hits(t, p) == {i \in rows(t) : e.pred_labels[i] = p}
        IN e.true_labels # <<>> =>
           /\ DOMAIN cm = 1..2
           /\ \A t \in Labels : DOMAIN cm[t + 1] = 1..2
           /\ \A t \in Labels :
                rows(t) # {} =>
                  /\ \A p \in Labels :
                       cm[t + 1][p + 1][1] * Cardinality(rows(t))
                         = 100 * Cardinality(hits(t, p)) * cm[t + 1][p + 1][2]
                  /\ cm[t + 1][1][1] * cm[t + 1][2][2] + cm[t + 1][2][1] * cm[t + 1][1][2]
                         = 100 * cm[t + 1][1][2] * cm[t + 1][2][2]

\* The pooled rows, as (entry, position) pairs, with their label and toxic score.
PooledRows ==
    {<<i, j>> : i \in DOMAIN results_by_lang, j \in 1..MaxPRRows} \cap
    {x \in (DOMAIN results_by_lang) \X (1..MaxPRRows) :
        x[2] \in DOMAIN results_by_lang[x[1]].val.true_labels}
RowLabel(x) == results_by_lang[x[1]].val.true_labels[x[2]]
RowScore(x) == results_by_lang[x[1]].val.pred_probs[x[2]][2]
AtOrAbove(th) == {x \in PooledRows : RowScore(x) >= th}
Toxic(S) == {x \in S : RowLabel(x) = 1}

FracEq(a, b) == a[1] * b[2] = b[1] * a[2]

\* The geometric-mean criterion at curve point j, squared, and F1 at point j.
CurveGM(j) == <<pr_result.precision[j][1] * pr_result.recall[j][1],
                pr_result.precision[j][2] * pr_result.recall[j][2]>>
CurveF1(j) ==
    LET p == pr_result.precision[j]
        r == pr_result.recall[j]
    IN IF p[1] = 0 \/ r[1] = 0 THEN <<0, 1>>
       ELSE <<2 * p[1] * r[1], p[1] * r[2] + r[1] * p[2]>>

\* C8: the curve is sampled at the distinct toxic-class scores pooled from all
\* languages (precision and recall of the rows scored at or above each), and
\* the operating point is the lowest index whose sqrt(precision * recall) is
\* at least that of every sampled point, also when another point has the
\* highest F1.
C8_GeometricMeanArgmax ==
    (pc = "plotted" /\ pr_result.raised = "none") =>
      LET ths == pr_result.thresholds
          best == pr_result.optimal_idx + 1
      IN /\ SeqSet(ths) = {RowScore(x) : x \in PooledRows}
         /\ \A i \in 1..(Len(ths) - 1) : ths[i] < ths[i + 1]
         /\ Len(pr_result.precision) = Len(ths) + 1
         /\ Len(pr_result.recall) = Len(ths) + 1
         /\ \A i \in DOMAIN ths :
              /\ FracEq(pr_result.precision[i],
                        <<Cardinality(Toxic(AtOrAbove(ths[i]))),
                          Cardinality(AtOrAbove(ths[i]))>>)
              /\ Toxic(PooledRows) # {} =>
                   FracEq(pr_result.recall[i],
                          <<Cardinality(Toxic(AtOrAbove(ths[i]))),
                            Cardinality(Toxic(PooledRows))>>)
         /\ best \in DOMAIN pr_result.precision
         /\ \A j \in DOMAIN pr_result.precision : ~FracLess(CurveGM(best), CurveGM(j))
         /\ \A j \in 1..(best - 1) : FracLess(CurveGM(j), CurveGM(best))

\* A curve pooled from two languages on which a point other than the chosen
\* one has a strictly higher F1.
C8_Witness ==
    /\ pc = "plotted"
    /\ pr_result.raised = "none"
    /\ \A i \in DOMAIN results_by_lang : results_by_lang[i].val.true_labels # <<>>
    /\ \E j \in DOMAIN pr_result.precision :
         FracLess(CurveF1(pr_result.optimal_idx + 1), CurveF1(j))

\* C10: on a pooled input with at least one toxic and one non-toxic label the
\* precision and recall arrays have one more element than thresholds, the
\* extra last point being (precision 1, recall 0), and the chosen index is a
\* valid index of thresholds, so the threshold read succeeds.
C10_IndexWithinThresholds ==
    (pc = "plotted" /\ Toxic(PooledRows) # {} /\ Toxic(PooledRows) # PooledRows) =>
      /\ pr_result.raised = "none"
      /\ Len(pr_result.precision) = Len(pr_result.thresholds) + 1
      /\ Len(pr_result.recall) = Len(pr_result.thresholds) + 1
      /\ FracEq(pr_result.precision[Len(pr_result.precision)], <<1, 1>>)
      /\ FracEq(pr_result.recall[Len(pr_result.recall)], <<0, 1>>)
      /\ pr_result.optimal_idx \in 0..(Len(pr_result.thresholds) - 1)
      /\ pr_result.optimal_threshold = pr_result.thresholds[pr_result.optimal_idx + 1]

\* Both classes present, the top-scored rows non-toxic: only the extra last
\* point has precision 1, and the index chosen is the last valid one.
C10_Witness ==
    /\ pc = "plotted"
    /\ Toxic(PooledRows) # {}
    /\ Toxic(PooledRows) # PooledRows
    /\ pr_result.raised = "none"
    /\ Len(pr_result.thresholds) >= 2
    /\ \A i \in DOMAIN pr_result.thresholds :
         FracLess(pr_result.precision[i], <<1, 1>>)
    /\ pr_result.optimal_idx = Len(pr_result.thresholds) - 1

====
